---- MODULE Spec2Model ----
(***************************************************************************)
(* The SIGQUIT (ANR) interception and watchdog hand-off of                 *)
(* bugsnag-plugin-android-anr/src/main/jni/anr_handler.c.                   *)
(*                                                                         *)
(* Application threads call bsg_handler_install_anr and                    *)
(* bsg_handler_uninstall_anr, and any of them whose signal mask lets       *)
(* SIGQUIT through may be interrupted by a delivery of it.  A handler      *)
(* frame runs on top of the thread it interrupts.  The watchdog thread is  *)
(* created by install_signal_handler and runs                              *)
(* sigquit_watchdog_thread_main once.                                      *)
(*                                                                         *)
(* Also the path builder of                                                *)
(* bugsnag-plugin-android-ndk/src/main/jni/utils/path_builder.c, under its *)
(* own specification SpecPB: the two share no state.                       *)
(***************************************************************************)
EXTENDS Naturals, Integers, Sequences, FiniteSets

Threads == {"t1", "t2"}

\* What the JNIEnv handed to install turns out to be: a null pointer, one
\* whose GetJavaVM fails, one that cannot find the AnrPlugin class, one that
\* finds the class but not notifyAnrDetected, and one that resolves all.
EnvKinds == {"NULL", "vm_err", "no_class", "no_method", "ok"}
PluginKinds == {"NULL", "obj"}

\* The argument slot of a thread that is not inside install.
NoArg == [env |-> "NULL", plugin |-> "NULL"]

VARIABLES
  mutex,                     \* bsg_anr_handler_config: "free" or its holder
  enabled,
  installed,
  wd_pc,                     \* watchdog_thread: "none" until created, then its position
  should_wait_for_semaphore,
  sem,                       \* value of reporter_thread_semaphore
  should_report_anr,
  disposition,               \* the live SIGQUIT disposition of the process
  original_sigquit_handler,  \* "unset" until sigaction saved the old one
  bsg_jvm,
  mthd_notify_anr_detected,
  obj_plugin,
  pc,                        \* per thread: position inside install/uninstall
  hpc,                       \* per thread: position inside a handle_sigquit frame
  sigmask,                   \* per thread: TRUE when SIGQUIT is blocked
  arg,                       \* per thread: the arguments of its install call,
                             \* from the call to their last use at line 220
  ret,                       \* what the last install to return returned:
                             \* "none" before any, then "true" or "false"
  wd_attached,               \* the watchdog thread is attached to the JavaVM
  should_detach,             \* local of notify_anr_detected
  exc_pending,               \* a Java exception is pending on the watchdog's env
  events,                    \* calls made by the watchdog, in order
  hist,                      \* history of the run, read by the properties only
  g_path,                    \* the path builder's struct: path, subpaths,
                             \* subpath_level
  pb_hist                    \* history of the path builder's calls, read by
                             \* the properties only

\* The state of anr_handler.c.
anrvars == <<mutex, enabled, installed, wd_pc, should_wait_for_semaphore, sem,
             should_report_anr, disposition, original_sigquit_handler, bsg_jvm,
             mthd_notify_anr_detected, obj_plugin, pc, hpc, sigmask, arg, ret,
             wd_attached, should_detach, exc_pending, events, hist>>

\* The state of path_builder.c.
pbvars == <<g_path, pb_hist>>

vars == <<anrvars, pbvars>>

----------------------------------------------------------------------------
\* path_builder.c, sizes.  The source's values (100, 500, 100) are scaled
\* down; what is kept is their order: the padding holds the longest index
\* string with its '.' and its terminator, as 100 holds the 20 characters
\* of an int64.
MAX_SUBPATHS == 3
PATH_SIZE == 3
PATH_SIZE_PADDING == 3

\* sizeof(g_path.path)
BufSize == PATH_SIZE + PATH_SIZE_PADDING

\* The byte '\0'.
NUL == "NUL"

\* A key longer than the whole buffer.
LongKey == [i \in 1..(BufSize + 1) |-> "k"]

\* Keys handed to bsg_pb_stack_map_key: empty, one character, too long.
Keys == {<<>>, <<"a">>, LongKey}

\* Indices handed to bsg_pb_stack_list_index.
Indices == {0, 12, -3}

\* The struct as the loader zeroes it: subpaths holds no pointer yet.
ZeroedPath ==
  [path |-> [i \in 0..(BufSize - 1) |-> NUL],
   subpaths |-> <<>>,
   subpath_level |-> 0]

\* The history before any call: the last operation, the path string and
\* the level before the last push, the segments an unbounded stack would
\* hold, and whether that stack has stayed within capacity and depth.
NoHistory ==
  [op |-> "none", str |-> <<>>, lvl |-> 0, segs |-> <<>>, within |-> TRUE]

\* The variables the signal handler and the install path share.
sigvars == <<disposition, original_sigquit_handler, should_report_anr, sem,
             should_wait_for_semaphore>>
\* The host binding.
bindvars == <<bsg_jvm, mthd_notify_anr_detected, obj_plugin>>
\* The watchdog thread's own state.
wdvars == <<wd_pc, wd_attached, should_detach, exc_pending, events>>

\* The state of the statics at process start.  Signal masks are the
\* process's own business: t1 starts with SIGQUIT blocked (as the Android
\* runtime leaves its threads, and as line 211 expects), t2 with SIGQUIT
\* unblocked.
Init ==
  /\ mutex = "free"
  /\ enabled = FALSE
  /\ installed = FALSE
  /\ wd_pc = "none"
  /\ should_wait_for_semaphore = FALSE
  /\ sem = 0
  /\ should_report_anr = FALSE
  /\ disposition = "original"
  /\ original_sigquit_handler = "unset"
  /\ bsg_jvm = "NULL"
  /\ mthd_notify_anr_detected = "NULL"
  /\ obj_plugin = "NULL"
  /\ pc = [t \in Threads |-> "idle"]
  /\ hpc = [t \in Threads |-> "none"]
  /\ sigmask = [t \in Threads |-> t = "t1"]
  /\ arg = [t \in Threads |-> NoArg]
  /\ ret = "none"
  /\ wd_attached = FALSE
  /\ should_detach = FALSE
  /\ exc_pending = FALSE
  /\ events = <<>>
  /\ hist = [lastLock |-> "none", again |-> FALSE, setups |-> 0, entries |-> 0,
             orig |-> FALSE, installer |-> "none", fire |-> "none",
             fireEnabled |-> "none", resolved |-> FALSE, check |-> "none",
             outcome |-> "none",
             attached0 |-> "none", pollsAfterFlag |-> 0]
  /\ g_path = ZeroedPath
  /\ pb_hist = NoHistory

\* A counter of the history that stops at 2: the properties ask only whether
\* something happened never, once or more than once.
Inc(n) == IF n < 2 THEN n + 1 ELSE n

\* A thread runs its own code only while no handler frame sits on top of it.
Runs(t) == hpc[t] = "none"

----------------------------------------------------------------------------
\* anr_bsg_check_and_clear_exc: a pending exception is cleared; the env is
\* left with none pending.
anr_bsg_check_and_clear_exc(pending) == FALSE

\* configure_anr_jni: its result and what it leaves in bsg_jvm and
\* mthd_notify_anr_detected.
configure_anr_jni(env) ==
  CASE env = "NULL"      -> [ok |-> FALSE, jvm |-> bsg_jvm, mthd |-> mthd_notify_anr_detected]
    [] env = "vm_err"    -> [ok |-> FALSE, jvm |-> bsg_jvm, mthd |-> mthd_notify_anr_detected]
    [] env = "no_class"  -> [ok |-> FALSE, jvm |-> "jvm", mthd |-> mthd_notify_anr_detected]
    [] env = "no_method" -> [ok |-> TRUE, jvm |-> "jvm", mthd |-> "NULL"]
    [] OTHER             -> [ok |-> TRUE, jvm |-> "jvm", mthd |-> "mthd"]

\* The environment's side of the resolution: every name was found.
Resolves(env, plugin) == env = "ok" /\ plugin = "obj"

----------------------------------------------------------------------------
\* The first conjunct of line 219.
AlreadyInstalled_everFalse == FALSE

AlreadyInstalled == installed

\* bsg_handler_install_anr, lines 217-220: the lock is taken, then the
\* condition of line 219 is evaluated (&& calls configure_anr_jni only when
\* installed is false) and, when it holds, NewGlobalRef, which may return
\* NULL.  Nothing written here is read by another thread before the lock is
\* released or the watchdog thread is created.
InstallBegin(t) ==
  /\ Runs(t) /\ pc[t] = "idle" /\ mutex = "free"
  /\ mutex' = t
  /\ \E env \in EnvKinds, plugin \in PluginKinds :
       /\ IF AlreadyInstalled
            THEN /\ pc' = [pc EXCEPT ![t] = "i_enable"]
                 /\ arg' = arg
                 /\ hist' = [hist EXCEPT !.lastLock = "install", !.again = FALSE]
                 /\ UNCHANGED bindvars
            ELSE LET c == configure_anr_jni(env) IN
                 /\ bsg_jvm' = c.jvm
                 /\ mthd_notify_anr_detected' = c.mthd
                 /\ hist' = [hist EXCEPT !.lastLock = "install", !.again = FALSE,
                               !.resolved = @ \/ Resolves(env, plugin)]
                 /\ IF c.ok /\ plugin # "NULL"
                      THEN /\ \E ref \in {"ref", "NULL"} : obj_plugin' = ref
                           /\ pc' = [pc EXCEPT ![t] = "i_setup"]
                           /\ arg' = [arg EXCEPT ![t] =
                                        [env |-> env, plugin |-> plugin]]
                      ELSE /\ obj_plugin' = obj_plugin
                           /\ pc' = [pc EXCEPT ![t] = "i_enable"]
                           /\ arg' = arg
  /\ UNCHANGED <<enabled, installed, sigvars, wdvars, hpc, sigmask, ret>>
  /\ UNCHANGED pbvars

\* A setup that goes on to sigaction although pthread_create failed.
InstallSetup_ignoresFailure(t) ==
  /\ Runs(t) /\ pc[t] = "i_setup"
  /\ \E sem_ok \in BOOLEAN :
       /\ should_wait_for_semaphore' = (should_wait_for_semaphore \/ sem_ok)
       /\ sem' = IF sem_ok THEN 0 ELSE sem
  /\ \/ /\ \E att \in BOOLEAN :
             /\ wd_attached' = att
             /\ hist' = [hist EXCEPT !.setups = Inc(@), !.installer = t,
                                     !.attached0 = IF att THEN "yes" ELSE "no"]
        /\ wd_pc' = "wait"
     \/ /\ hist' = [hist EXCEPT !.setups = Inc(@), !.installer = t]
        /\ UNCHANGED <<wd_pc, wd_attached>>
  /\ pc' = [pc EXCEPT ![t] = "i_sigaction"]
  /\ arg' = [arg EXCEPT ![t] = NoArg]
  /\ UNCHANGED <<mutex, enabled, installed, disposition,
                 original_sigquit_handler, should_report_anr, bindvars,
                 should_detach, exc_pending, events, hpc, sigmask, ret>>
  /\ UNCHANGED pbvars

\* install_signal_handler, lines 174-193: bsg_google_anr_init (its result is
\* only logged), sem_init, pthread_create.  The new thread starts at the
\* top of sigquit_watchdog_thread_main.  Whether the JavaVM already knows
\* the new thread is what GetEnv will answer at line 95; it is fixed here.
InstallSetup(t) ==
  /\ Runs(t) /\ pc[t] = "i_setup"
  /\ \E sem_ok \in BOOLEAN :
       /\ should_wait_for_semaphore' = (should_wait_for_semaphore \/ sem_ok)
       /\ sem' = IF sem_ok THEN 0 ELSE sem
  /\ \/ /\ \E att \in BOOLEAN :
             /\ wd_attached' = att
             /\ hist' = [hist EXCEPT !.setups = Inc(@), !.installer = t,
                                     !.attached0 = IF att THEN "yes" ELSE "no"]
        /\ wd_pc' = "wait"
        /\ pc' = [pc EXCEPT ![t] = "i_sigaction"]
     \/ /\ hist' = [hist EXCEPT !.setups = Inc(@), !.installer = t]
        /\ pc' = [pc EXCEPT ![t] = "i_installed"]
        /\ UNCHANGED <<wd_pc, wd_attached>>
  /\ arg' = [arg EXCEPT ![t] = NoArg]
  /\ UNCHANGED <<mutex, enabled, installed, disposition,
                 original_sigquit_handler, should_report_anr, bindvars,
                 should_detach, exc_pending, events, hpc, sigmask, ret>>
  /\ UNCHANGED pbvars

\* install_signal_handler, lines 196-205: sigaction installs handle_sigquit
\* and saves the old disposition, or fails and leaves both alone.
InstallSigaction(t) ==
  /\ Runs(t) /\ pc[t] = "i_sigaction"
  /\ \/ /\ original_sigquit_handler' = disposition
        /\ disposition' = "handle_sigquit"
        /\ pc' = [pc EXCEPT ![t] = "i_unblock"]
     \/ /\ pc' = [pc EXCEPT ![t] = "i_installed"]
        /\ UNCHANGED <<disposition, original_sigquit_handler>>
  /\ UNCHANGED <<mutex, enabled, installed, should_report_anr, sem,
                 should_wait_for_semaphore, bindvars, wdvars, hpc, sigmask,
                 arg, ret, hist>>
  /\ UNCHANGED pbvars

\* install_signal_handler, lines 208-213: SIGQUIT is unblocked for the
\* calling thread; a failure is only logged.
InstallUnblock(t) ==
  /\ Runs(t) /\ pc[t] = "i_unblock"
  /\ \E ok \in BOOLEAN :
       sigmask' = IF ok THEN [sigmask EXCEPT ![t] = FALSE] ELSE sigmask
  /\ pc' = [pc EXCEPT ![t] = "i_installed"]
  /\ UNCHANGED <<mutex, enabled, installed, sigvars, bindvars, wdvars, hpc,
                 arg, ret, hist>>
  /\ UNCHANGED pbvars

\* Line 222.
InstallMark(t) ==
  /\ Runs(t) /\ pc[t] = "i_installed"
  /\ installed' = TRUE
  /\ pc' = [pc EXCEPT ![t] = "i_enable"]
  /\ UNCHANGED <<mutex, enabled, sigvars, bindvars, wdvars, hpc, sigmask,
                 arg, ret, hist>>
  /\ UNCHANGED pbvars

\* The value bsg_handler_install_anr returns, line 226.
InstallResult_installed == IF installed THEN "true" ELSE "false"

InstallResult == "true"

\* Lines 224-226: enabled is set, the lock released and the call returns.
\* No caller reads enabled, so the write and the unlock are one step.
InstallEnd(t) ==
  /\ Runs(t) /\ pc[t] = "i_enable"
  /\ enabled' = TRUE
  /\ mutex' = "free"
  /\ ret' = InstallResult
  /\ pc' = [pc EXCEPT ![t] = "idle"]
  /\ UNCHANGED <<installed, sigvars, bindvars, wdvars, hpc, sigmask, arg, hist>>
  /\ UNCHANGED pbvars

\* bsg_handler_uninstall_anr, line 230.
UninstallLock(t) ==
  /\ Runs(t) /\ pc[t] = "idle" /\ mutex = "free"
  /\ mutex' = t
  /\ pc' = [pc EXCEPT ![t] = "u_write"]
  /\ hist' = [hist EXCEPT !.lastLock = "uninstall",
                          !.again = (hist.lastLock = "uninstall")]
  /\ UNCHANGED <<enabled, installed, sigvars, bindvars, wdvars, hpc, sigmask,
                 arg, ret>>
  /\ UNCHANGED pbvars

\* An uninstall that also forgets the installation.
UninstallWrite_teardown(t) ==
  /\ Runs(t) /\ pc[t] = "u_write"
  /\ enabled' = FALSE
  /\ installed' = FALSE
  /\ mutex' = "free"
  /\ pc' = [pc EXCEPT ![t] = "idle"]
  /\ hist' = [hist EXCEPT !.fireEnabled = IF @ = "yes" THEN "no" ELSE @]
  /\ UNCHANGED <<sigvars, bindvars, wdvars, hpc, sigmask, arg, ret>>
  /\ UNCHANGED pbvars

\* An uninstall that flips the flag.
UninstallWrite_toggle(t) ==
  /\ Runs(t) /\ pc[t] = "u_write"
  /\ enabled' = ~enabled
  /\ mutex' = "free"
  /\ pc' = [pc EXCEPT ![t] = "idle"]
  /\ hist' = [hist EXCEPT !.fireEnabled = IF @ = "yes" THEN "no" ELSE @]
  /\ UNCHANGED <<installed, sigvars, bindvars, wdvars, hpc, sigmask, arg, ret>>
  /\ UNCHANGED pbvars

\* Lines 231-233.
UninstallWrite(t) ==
  /\ Runs(t) /\ pc[t] = "u_write"
  /\ enabled' = FALSE
  /\ mutex' = "free"
  /\ pc' = [pc EXCEPT ![t] = "idle"]
  /\ hist' = [hist EXCEPT !.fireEnabled = IF @ = "yes" THEN "no" ELSE @]
  /\ UNCHANGED <<installed, sigvars, bindvars, wdvars, hpc, sigmask, arg, ret>>
  /\ UNCHANGED pbvars

----------------------------------------------------------------------------
\* The operating system delivers SIGQUIT to a thread that does not block it.
\* The live disposition decides what runs: whatever was there before, or
\* handle_sigquit, whose lines 154-157 touch the thread's own mask only
\* (SIGQUIT is blocked inside the frame in any case: line 199 sets no
\* SA_NODEFER).
Deliver(t) ==
  /\ ~sigmask[t] /\ hpc[t] = "none"
  /\ IF disposition = "handle_sigquit"
       THEN /\ hpc' = [hpc EXCEPT ![t] = "h_restore"]
            /\ sigmask' = [sigmask EXCEPT ![t] = TRUE]
            /\ hist' = [hist EXCEPT
                 !.entries = Inc(@),
                 !.fire = IF @ = "none" THEN t ELSE @,
                 !.fireEnabled = IF @ # "none" THEN @
                                 ELSE IF enabled THEN "yes" ELSE "no"]
       ELSE /\ hpc' = hpc
            /\ sigmask' = sigmask
            /\ hist' = [hist EXCEPT !.orig = TRUE]
  /\ UNCHANGED <<mutex, enabled, installed, sigvars, bindvars, wdvars, pc,
                 arg, ret>>
  /\ UNCHANGED pbvars

\* A handler that does not put the old disposition back.
H_restore_skipped(t) ==
  /\ hpc[t] = "h_restore"
  /\ disposition' = disposition
  /\ hpc' = [hpc EXCEPT ![t] = "h_flag"]
  /\ UNCHANGED <<mutex, enabled, installed, original_sigquit_handler,
                 should_report_anr, sem, should_wait_for_semaphore, bindvars,
                 wdvars, pc, sigmask, arg, ret, hist>>
  /\ UNCHANGED pbvars

\* handle_sigquit, line 158.
H_restore(t) ==
  /\ hpc[t] = "h_restore"
  /\ disposition' = original_sigquit_handler
  /\ hpc' = [hpc EXCEPT ![t] = "h_flag"]
  /\ UNCHANGED <<mutex, enabled, installed, original_sigquit_handler,
                 should_report_anr, sem, should_wait_for_semaphore, bindvars,
                 wdvars, pc, sigmask, arg, ret, hist>>
  /\ UNCHANGED pbvars

\* handle_sigquit, line 161.
H_flag(t) ==
  /\ hpc[t] = "h_flag"
  /\ should_report_anr' = TRUE
  /\ hpc' = [hpc EXCEPT ![t] = "h_post"]
  /\ UNCHANGED <<mutex, enabled, installed, disposition,
                 original_sigquit_handler, sem, should_wait_for_semaphore,
                 bindvars, wdvars, pc, sigmask, arg, ret, hist>>
  /\ UNCHANGED pbvars

\* handle_sigquit, lines 166-171: sem_post, whose failure is only logged,
\* and the return, which puts back the mask the thread had at delivery.
H_post(t) ==
  /\ hpc[t] = "h_post"
  /\ \E ok \in BOOLEAN : sem' = IF ok THEN sem + 1 ELSE sem
  /\ hpc' = [hpc EXCEPT ![t] = "none"]
  /\ sigmask' = [sigmask EXCEPT ![t] = FALSE]
  /\ UNCHANGED <<mutex, enabled, installed, disposition,
                 original_sigquit_handler, should_report_anr,
                 should_wait_for_semaphore, bindvars, wdvars, pc, arg, ret,
                 hist>>
  /\ UNCHANGED pbvars

----------------------------------------------------------------------------
\* What the watchdog leaves alone in all of its steps.
wdframe == <<mutex, installed, enabled, disposition, original_sigquit_handler,
             should_report_anr, should_wait_for_semaphore, bindvars, pc, hpc,
             sigmask, arg, ret>>

\* A step of the wait loop taken while should_report_anr is already set.
Polled == [hist EXCEPT !.pollsAfterFlag = IF should_report_anr THEN Inc(@) ELSE @]

\* sigquit_watchdog_thread_main, line 130, semaphore initialised: sem_wait
\* returns 0 once it has taken a post.  usleep(delay_10ms), line 138,
\* follows the wait.
W_sem_wait ==
  /\ wd_pc = "wait" /\ should_wait_for_semaphore
  /\ sem > 0
  /\ sem' = sem - 1
  /\ wd_pc' = "n_enabled"
  /\ UNCHANGED <<wdframe, wd_attached, should_detach, exc_pending, events,
                 hist>>
  /\ UNCHANGED pbvars

\* Line 130, semaphore initialised: sem_wait fails (EINTR) and the thread
\* falls back to the polling loop.
W_sem_fail ==
  /\ wd_pc = "wait" /\ should_wait_for_semaphore
  /\ wd_pc' = "poll_check"
  /\ UNCHANGED <<wdframe, sem, wd_attached, should_detach, exc_pending, events,
                 hist>>
  /\ UNCHANGED pbvars

\* Line 130, semaphore not initialised: straight to the polling loop.
W_no_sem ==
  /\ wd_pc = "wait" /\ ~should_wait_for_semaphore
  /\ wd_pc' = "poll_check"
  /\ UNCHANGED <<wdframe, sem, wd_attached, should_detach, exc_pending, events,
                 hist>>
  /\ UNCHANGED pbvars

\* A loop that tests the wrong flag.
W_poll_check_wrongFlag ==
  /\ wd_pc = "poll_check"
  /\ wd_pc' = IF should_wait_for_semaphore THEN "n_enabled" ELSE "poll_sleep"
  /\ UNCHANGED <<wdframe, sem, wd_attached, should_detach, exc_pending, events,
                 hist>>
  /\ UNCHANGED pbvars

\* Line 131: the loop condition; when it ends the loop, usleep(delay_10ms)
\* of line 138 follows.
W_poll_check ==
  /\ wd_pc = "poll_check"
  /\ wd_pc' = IF should_report_anr THEN "n_enabled" ELSE "poll_sleep"
  /\ UNCHANGED <<wdframe, sem, wd_attached, should_detach, exc_pending, events,
                 hist>>
  /\ UNCHANGED pbvars

\* Line 132: usleep(delay_100ms).
W_poll_sleep ==
  /\ wd_pc = "poll_sleep"
  /\ wd_pc' = "poll_check"
  /\ hist' = Polled
  /\ UNCHANGED <<wdframe, sem, wd_attached, should_detach, exc_pending, events>>
  /\ UNCHANGED pbvars

\* A notifier that does not look at enabled.
N_enabled_noCheck ==
  /\ wd_pc = "n_enabled"
  /\ should_detach' = FALSE
  /\ wd_pc' = "n_getenv"
  /\ hist' = [hist EXCEPT !.check = IF enabled THEN "pass" ELSE "skip"]
  /\ UNCHANGED <<wdframe, sem, wd_attached, exc_pending, events>>
  /\ UNCHANGED pbvars

\* notify_anr_detected, lines 89-93.
N_enabled ==
  /\ wd_pc = "n_enabled"
  /\ should_detach' = FALSE
  /\ IF ~enabled
       THEN /\ wd_pc' = "google"
            /\ hist' = [hist EXCEPT !.check = "skip"]
       ELSE /\ wd_pc' = "n_getenv"
            /\ hist' = [hist EXCEPT !.check = "pass"]
  /\ UNCHANGED <<wdframe, sem, wd_attached, exc_pending, events>>
  /\ UNCHANGED pbvars

\* A notifier whose failure ends the thread.
N_getenv_failStops ==
  /\ wd_pc = "n_getenv"
  /\ \/ /\ wd_attached
        /\ wd_pc' = "n_call"
        /\ UNCHANGED <<wd_attached, should_detach, hist>>
     \/ /\ ~wd_attached
        /\ wd_attached' = TRUE
        /\ should_detach' = TRUE
        /\ wd_pc' = "n_call"
        /\ hist' = hist
     \/ /\ ~wd_attached
        /\ wd_pc' = "exited"
        /\ hist' = [hist EXCEPT !.outcome = "attach_fail"]
        /\ UNCHANGED <<wd_attached, should_detach>>
     \/ /\ wd_pc' = "exited"
        /\ hist' = [hist EXCEPT !.outcome = "getenv_err"]
        /\ UNCHANGED <<wd_attached, should_detach>>
  /\ UNCHANGED <<wdframe, sem, exc_pending, events>>
  /\ UNCHANGED pbvars

\* notify_anr_detected, lines 95-110: GetEnv answers JNI_OK for a thread the
\* JavaVM knows, JNI_EDETACHED for one it does not (AttachCurrentThread then
\* succeeds or fails), or an error.
N_getenv ==
  /\ wd_pc = "n_getenv"
  /\ \/ /\ wd_attached
        /\ wd_pc' = "n_call"
        /\ UNCHANGED <<wd_attached, should_detach, hist>>
     \/ /\ ~wd_attached
        /\ wd_attached' = TRUE
        /\ should_detach' = TRUE
        /\ wd_pc' = "n_call"
        /\ hist' = hist
     \/ /\ ~wd_attached
        /\ wd_pc' = "google"
        /\ hist' = [hist EXCEPT !.outcome = "attach_fail"]
        /\ UNCHANGED <<wd_attached, should_detach>>
     \/ /\ wd_pc' = "google"
        /\ hist' = [hist EXCEPT !.outcome = "getenv_err"]
        /\ UNCHANGED <<wd_attached, should_detach>>
  /\ UNCHANGED <<wdframe, sem, exc_pending, events>>
  /\ UNCHANGED pbvars

\* The guard of line 112.
BindingUsable_inverted == ~(obj_plugin # "NULL" /\ mthd_notify_anr_detected # "NULL")

BindingUsable == obj_plugin # "NULL" /\ mthd_notify_anr_detected # "NULL"

\* The condition of line 117.
ShouldDetach_always == TRUE

ShouldDetach == should_detach

\* notify_anr_detected, lines 112-121: CallVoidMethod, which may leave an
\* exception pending, then anr_bsg_check_and_clear_exc, then the detach.
\* All of it is local to the watchdog thread.
N_call ==
  /\ wd_pc = "n_call"
  /\ IF BindingUsable
       THEN /\ events' = Append(events, "notify")
            /\ \E threw \in BOOLEAN :
                 /\ exc_pending' = anr_bsg_check_and_clear_exc(threw)
                 /\ hist' = [hist EXCEPT !.outcome =
                               IF threw THEN "threw" ELSE "called"]
       ELSE /\ hist' = [hist EXCEPT !.outcome = "unresolved"]
            /\ UNCHANGED <<events, exc_pending>>
  /\ wd_attached' = IF ShouldDetach THEN FALSE ELSE wd_attached
  /\ wd_pc' = "google"
  /\ UNCHANGED <<wdframe, sem, should_detach>>
  /\ UNCHANGED pbvars

\* Line 144: bsg_google_anr_call.
W_google ==
  /\ wd_pc = "google"
  /\ events' = Append(events, "google")
  /\ wd_pc' = "grace"
  /\ UNCHANGED <<wdframe, sem, wd_attached, should_detach, exc_pending, hist>>
  /\ UNCHANGED pbvars

\* A watchdog that goes back to waiting for the next signal.
W_grace_restart ==
  /\ wd_pc = "grace"
  /\ wd_pc' = "wait"
  /\ UNCHANGED <<wdframe, sem, wd_attached, should_detach, exc_pending, events,
                 hist>>
  /\ UNCHANGED pbvars

\* Lines 148-149: usleep(delay_2sec) and the thread's return.
W_grace ==
  /\ wd_pc = "grace"
  /\ wd_pc' = "exited"
  /\ UNCHANGED <<wdframe, sem, wd_attached, should_detach, exc_pending, events,
                 hist>>
  /\ UNCHANGED pbvars

\* The steps the watchdog takes whenever it is scheduled: all but a failure
\* of sem_wait, which needs a signal to interrupt it.
WatchdogRuns ==
  \/ W_sem_wait
  \/ W_no_sem
  \/ W_poll_check
  \/ W_poll_sleep
  \/ N_enabled
  \/ N_getenv
  \/ N_call
  \/ W_google
  \/ W_grace

\* sigquit_watchdog_thread_main, one step of it.
Watchdog ==
  \/ W_sem_fail
  \/ WatchdogRuns

Caller(t) ==
  \/ InstallBegin(t)
  \/ InstallSetup(t)
  \/ InstallSigaction(t)
  \/ InstallUnblock(t)
  \/ InstallMark(t)
  \/ InstallEnd(t)
  \/ UninstallLock(t)
  \/ UninstallWrite(t)

Handler(t) ==
  \/ Deliver(t)
  \/ H_restore(t)
  \/ H_flag(t)
  \/ H_post(t)

Next ==
  \/ \E t \in Threads : Caller(t)
  \/ \E t \in Threads : Handler(t)
  \/ Watchdog

Spec == Init /\ [][Next]_vars

\* The watchdog is an operating-system thread: it is scheduled as long as
\* it has a step to take.  Nothing promises that a blocked sem_wait is ever
\* interrupted.
FairSpec == Spec /\ WF_vars(WatchdogRuns)

----------------------------------------------------------------------------
\* path_builder.c.  Pointers into g_path.path are offsets from its start.

\* Stores through a char pointer, `*p++ = c` for each byte in turn: a store
\* past the end of the array lands outside it.
Store(buf, at, bytes) ==
  [i \in DOMAIN buf \cup {at + k - 1 : k \in 1..Len(bytes)} |->
     IF i >= at /\ i < at + Len(bytes) THEN bytes[i - at + 1] ELSE buf[i]]

\* g_path.subpaths[i] = subpath.
Put(ptrs, i, subpath) ==
  [j \in DOMAIN ptrs \cup {i} |-> IF j = i THEN subpath ELSE ptrs[j]]

\* strlen(g_path.path + at).
strlen(buf, at) ==
  CHOOSE n \in 0..(BufSize + 1) :
    /\ (at + n \notin DOMAIN buf \/ buf[at + n] = NUL)
    /\ \A j \in 0..(n - 1) : at + j \in DOMAIN buf /\ buf[at + j] # NUL

\* bsg_pb_path(): the C string at the start of the buffer.
PathString(buf) ==
  [i \in 1..strlen(buf, 0) |-> buf[i - 1]]

\* A byte count that overstates the room by one.
available_byte_count_plusOne(subpath) == BufSize - subpath + 1

\* Lines 23-25.
available_byte_count(subpath) == BufSize - subpath

\* What bsg_strncpy_safe(dst, src, dst_size) stores at dst: nothing into no
\* room, else as much of src as leaves room for the terminator, and the
\* terminator.
bsg_strncpy_safe(src, dst_size) ==
  IF dst_size <= 0 THEN <<>>
  ELSE LET n == IF Len(src) < dst_size - 1 THEN Len(src) ELSE dst_size - 1
       IN  SubSeq(src, 1, n) \o <<NUL>>

\* One decimal digit.
Digit(d) == <<"0", "1", "2", "3", "4", "5", "6", "7", "8", "9">>[d + 1]

\* The decimal digits of a natural number, most significant first.
RECURSIVE Digits(_)
Digits(n) ==
  IF n < 10 THEN <<Digit(n)>> ELSE Append(Digits(n \div 10), Digit(n % 10))

\* What bsg_int64_to_string(value, dst) stores at dst, terminator aside: a
\* sign for a negative value, then the digits.  It returns their count.
bsg_int64_to_string(value) ==
  IF value < 0 THEN <<"-">> \o Digits(0 - value) ELSE Digits(value)

\* subpath_begin, lines 28-35: it returns NULL.
Refused(g) ==
  \/ g.subpath_level >= MAX_SUBPATHS - 1
  \/ g.subpaths[g.subpath_level] >= PATH_SIZE

\* A push that never writes the separator.
Separator_never(g) == <<>>

\* subpath_begin, lines 37-39: the '.' it stores before any level but the
\* first.
Separator(g) == IF g.subpath_level > 0 THEN <<".">> ELSE <<>>

\* subpath_begin, lines 34-40, when it does not return NULL: the buffer with
\* the separator stored, and the pointer it returns.
subpath_begin(g) ==
  LET begin == g.subpaths[g.subpath_level]
  IN  [path |-> Store(g.path, begin, Separator(g)),
       subpath |-> begin + Len(Separator(g))]

\* subpath_end, lines 43-47, on the buffer the push has written.
subpath_end(g, buf, subpath) ==
  [path |-> Store(buf, subpath, <<NUL>>),
   subpaths |-> Put(g.subpaths, g.subpath_level + 1, subpath),
   subpath_level |-> g.subpath_level + 1]

\* Lines 55-63, on the struct g.
stack_map_key(g, key) ==
  IF Refused(g) THEN g
  ELSE LET b == subpath_begin(g)
           copied == Store(b.path, b.subpath,
                           bsg_strncpy_safe(key, available_byte_count(b.subpath)))
       IN  subpath_end(g, copied, b.subpath + strlen(copied, b.subpath))

\* Lines 65-72, on the struct g.
stack_list_index(g, index) ==
  IF Refused(g) THEN g
  ELSE LET b == subpath_begin(g)
           str == bsg_int64_to_string(index)
       IN  subpath_end(g, Store(b.path, b.subpath, str \o <<NUL>>),
                       b.subpath + Len(str))

\* Lines 74-80, on the struct g.
stack_new_list_entry(g) ==
  IF Refused(g) THEN g
  ELSE LET b == subpath_begin(g)
       IN  subpath_end(g, b.path, b.subpath)

\* Lines 82-90, on the struct g.
unstack(g) ==
  IF g.subpath_level <= 0 THEN g
  ELSE [g EXCEPT !.subpath_level = g.subpath_level - 1,
                 !.path = Store(g.path, g.subpaths[g.subpath_level - 1], <<NUL>>)]

\* The segments joined by '.'.
RECURSIVE Join(_)
Join(segs) ==
  IF segs = <<>> THEN <<>>
  ELSE IF Len(segs) = 1 THEN segs[1]
  ELSE Join(SubSeq(segs, 1, Len(segs) - 1)) \o <<".">> \o segs[Len(segs)]

\* The history after a push of segment seg that took the struct to g2: the
\* path and level the push found, and the stack of segments as long as it
\* has stayed within PATH_SIZE characters and MAX_SUBPATHS - 1 levels.
Pushed(seg, g2) ==
  LET all == Append(pb_hist.segs, seg)
      fits == /\ pb_hist.within
              /\ Len(all) <= MAX_SUBPATHS - 1
              /\ Len(Join(all)) <= PATH_SIZE
  IN  [op |-> IF g2 = g_path THEN "refused" ELSE "push",
       str |-> PathString(g_path.path),
       lvl |-> g_path.subpath_level,
       segs |-> IF fits THEN all ELSE <<>>,
       within |-> fits]

\* The callers reset the builder before they push: a push on the zeroed
\* struct would compute with a null pointer.
WasReset == 0 \in DOMAIN g_path.subpaths

\* Lines 49-53.
bsg_pb_reset ==
  /\ g_path' = [path |-> Store(g_path.path, 0, <<NUL>>),
                subpaths |-> Put(g_path.subpaths, 0, 0),
                subpath_level |-> 0]
  /\ pb_hist' = [NoHistory EXCEPT !.op = "reset"]
  /\ UNCHANGED anrvars

\* Lines 55-63.
bsg_pb_stack_map_key(key) ==
  /\ WasReset
  /\ g_path' = stack_map_key(g_path, key)
  /\ pb_hist' = Pushed(key, g_path')
  /\ UNCHANGED anrvars

\* Lines 65-72.
bsg_pb_stack_list_index(index) ==
  /\ WasReset
  /\ g_path' = stack_list_index(g_path, index)
  /\ pb_hist' = Pushed(bsg_int64_to_string(index), g_path')
  /\ UNCHANGED anrvars

\* Lines 74-80.
bsg_pb_stack_new_list_entry ==
  /\ WasReset
  /\ g_path' = stack_new_list_entry(g_path)
  /\ pb_hist' = Pushed(<<>>, g_path')
  /\ UNCHANGED anrvars

\* Lines 82-90.
bsg_pb_unstack ==
  /\ g_path' = unstack(g_path)
  /\ pb_hist' = [pb_hist EXCEPT
                   !.op = IF @ \in {"push", "refused"} THEN "push_unstack"
                          ELSE "unstack",
                   !.str = IF pb_hist.op \in {"push", "refused"} THEN @ ELSE <<>>,
                   !.lvl = IF pb_hist.op \in {"push", "refused"} THEN @ ELSE 0,
                   !.segs = IF @ = <<>> THEN <<>> ELSE SubSeq(@, 1, Len(@) - 1)]
  /\ UNCHANGED anrvars

NextPB ==
  \/ bsg_pb_reset
  \/ \E key \in Keys : bsg_pb_stack_map_key(key)
  \/ \E index \in Indices : bsg_pb_stack_list_index(index)
  \/ bsg_pb_stack_new_list_entry
  \/ bsg_pb_unstack

\* The path builder driven by any sequence of its calls.
SpecPB == Init /\ [][NextPB]_vars

----------------------------------------------------------------------------
\* No call of install or uninstall is in progress.
AllReturned == \A t \in Threads : pc[t] = "idle"

\* How often the watchdog has made the call named.
Calls(name) == Cardinality({i \in 1..Len(events) : events[i] = name})

\* C1: once every install and uninstall call has returned, enabled is true
\* exactly when the call that held the configuration lock last was an
\* install, and install_signal_handler has run at most once.
C1_EnabledIsLastCall ==
  /\ AllReturned => (enabled <=> hist.lastLock = "install")
  /\ hist.setups <= 1

\* An install that set the mechanism up, then an uninstall, both returned.
C1_Witness ==
  /\ AllReturned /\ ret = "true" /\ hist.lastLock = "uninstall"
  /\ installed /\ ~enabled /\ hist.setups = 1

\* C2: the watchdog calls notifyAnrDetected at most once and
\* bsg_google_anr_call at most once, never the first after the second; and
\* when SIGQUIT first fired with the mechanism enabled, nobody uninstalled
\* since, the binding was resolved and the Java runtime accepted the thread,
\* the watchdog ends having made exactly the two calls, in that order.
C2_NotifyThenRetrigger ==
  /\ events \in {<<>>, <<"notify">>, <<"google">>, <<"notify", "google">>}
  /\ ( /\ wd_pc = "exited"
       /\ hist.fireEnabled = "yes"
       /\ obj_plugin # "NULL" /\ mthd_notify_anr_detected # "NULL"
       /\ hist.outcome \notin {"getenv_err", "attach_fail"} )
     => events = <<"notify", "google">>

\* The signal fired on a thread other than the installing one, and the
\* cycle completed.
C2_Witness ==
  /\ wd_pc = "exited" /\ hist.fireEnabled = "yes"
  /\ hist.fire # "none" /\ hist.fire # hist.installer
  /\ events = <<"notify", "google">>

\* C3: install returns true whenever it returns, also when the binding did
\* not resolve; and after installs whose binding did not resolve (none has
\* resolved it so far), notifyAnrDetected is never called, whatever signals
\* are delivered.
C3_FailOpenNoNotify ==
  /\ ret \in {"none", "true"}
  /\ ~hist.resolved => Calls("notify") = 0

\* An install whose resolution failed has returned true and a SIGQUIT has
\* been delivered since the process started.
C3_Witness ==
  /\ AllReturned /\ ret = "true" /\ ~hist.resolved /\ ~installed
  /\ hist.orig /\ Calls("notify") = 0

\* C4: when sem_init failed, the watchdog stays in its polling loop for at
\* most one more sleep once should_report_anr is set, and then goes through
\* the whole report cycle: it reaches its exit having called
\* bsg_google_anr_call.
C4_PollingWakes ==
  /\ [](~should_wait_for_semaphore => hist.pollsAfterFlag <= 1)
  /\ (~should_wait_for_semaphore /\ should_report_anr)
       ~> (wd_pc = "exited" /\ Calls("google") = 1)

\* The flag was set during a sleep of the polling loop, and the cycle
\* completed.
C4_Witness ==
  /\ ~should_wait_for_semaphore /\ should_report_anr
  /\ hist.pollsAfterFlag = 1
  /\ wd_pc = "exited" /\ Calls("google") = 1

\* C5: the body of handle_sigquit is entered at most once.
C5_HandlerEnteredOnce == hist.entries <= 1

\* C6: a step of uninstall taken while enabled is already false (a second
\* uninstall in a row, or one before any install) changes none of enabled,
\* installed, the signal disposition, the watchdog thread, the wake state
\* and the host binding.
C6_UninstallIdempotent ==
  [][\A t \in Threads :
       ( /\ ~enabled
         /\ \/ pc[t] = "idle" /\ pc'[t] = "u_write"
            \/ pc[t] = "u_write" /\ pc'[t] = "idle" )
       => UNCHANGED <<enabled, installed, sigvars, bindvars, wdvars, sigmask,
                      ret>>]_vars

\* Two uninstall calls in a row have returned and install was never called.
C6_Witness ==
  /\ AllReturned /\ hist.lastLock = "uninstall" /\ hist.again
  /\ ret = "none" /\ ~enabled /\ ~installed

\* C7: the watchdog reaches the end of its cycle only through
\* bsg_google_anr_call, called exactly once, whatever the notification step
\* did (GetEnv error, failed attach, unresolved callback, exception), and no
\* exception is left pending.
C7_FailureStillRetriggers ==
  /\ wd_pc \in {"grace", "exited"} => (Calls("google") = 1 /\ ~exc_pending)
  /\ wd_pc \notin {"grace", "exited"} => Calls("google") = 0

\* The attach failed and the cycle completed.
C7_Witness ==
  /\ wd_pc = "exited" /\ hist.outcome = "attach_fail"
  /\ events = <<"google">>

\* C8: when the notifier finds enabled false, notifyAnrDetected is not
\* called in the cycle, and bsg_google_anr_call still is; when it finds
\* enabled true, the cycle notifies (binding resolved, runtime accepting
\* the thread) whether or not uninstall clears enabled afterwards.
C8_UninstallSuppressesFutureOnly ==
  /\ hist.check = "skip" =>
       /\ Calls("notify") = 0
       /\ wd_pc = "exited" => events = <<"google">>
  /\ ( /\ hist.check = "pass" /\ wd_pc = "exited"
       /\ obj_plugin # "NULL" /\ mthd_notify_anr_detected # "NULL"
       /\ hist.outcome \notin {"getenv_err", "attach_fail"} )
     => events = <<"notify", "google">>

\* Uninstall took effect after the check had passed; the notification was
\* made all the same.
C8_Witness ==
  /\ hist.check = "pass" /\ wd_pc = "exited"
  /\ ~enabled /\ hist.lastLock = "uninstall" /\ AllReturned
  /\ events = <<"notify", "google">>

\* C9: when notify_anr_detected has returned, the watchdog thread is
\* attached to the Java runtime exactly if it was before the call.
C9_AttachmentRestored ==
  wd_pc \in {"google", "grace", "exited"} =>
    (wd_attached <=> hist.attached0 = "yes")

\* A thread that was attached already made the call and is still attached.
C9_Witness ==
  /\ wd_pc = "exited" /\ hist.attached0 = "yes" /\ wd_attached
  /\ Calls("notify") = 1

\* C10: an install call whose binding did not resolve (null env, null
\* plugin, class or method not found) does not go on to the structural
\* setup.
C10_NoSetupUnlessResolved ==
  \A t \in Threads : pc[t] = "i_setup" => Resolves(arg[t].env, arg[t].plugin)

----------------------------------------------------------------------------
\* The watchdog is in its initial wait: blocked in sem_wait or polling.
Parked == wd_pc \in {"wait", "poll_check", "poll_sleep"}

\* The watchdog exists and has left its initial wait.
Woken == wd_pc \in {"n_enabled", "n_getenv", "n_call", "google", "grace", "exited"}

\* Thread t takes a step of bsg_handler_uninstall_anr.
UninstallStep(t) ==
  \/ pc[t] = "idle" /\ pc'[t] = "u_write"
  \/ pc[t] = "u_write" /\ pc'[t] = "idle"

\* C13: a step of uninstall leaves installed, the live and the saved SIGQUIT
\* disposition, the watchdog thread, the wake state and the host binding
\* unchanged; and no step at all takes installed from true to false.
C13_UninstallOnlyClearsEnabled ==
  [][ /\ \A t \in Threads :
           UninstallStep(t) => UNCHANGED <<installed, sigvars, bindvars, wdvars>>
      /\ installed => installed' ]_vars

\* Uninstalled after a complete install: enabled is off, and installed, the
\* handler and the parked watchdog are all still there.
C13_Witness ==
  /\ AllReturned /\ hist.lastLock = "uninstall" /\ ~enabled
  /\ installed /\ disposition = "handle_sigquit" /\ Parked
  /\ obj_plugin = "ref"

\* C14: whenever should_report_anr is set or the watchdog has left its wait,
\* the live SIGQUIT disposition is the saved original one and not
\* handle_sigquit; and the watchdog makes each of its two calls at most once.
C14_DisarmedBeforeWake ==
  /\ (should_report_anr \/ Woken) =>
       /\ disposition # "handle_sigquit"
       /\ disposition = original_sigquit_handler
  /\ Calls("notify") <= 1 /\ Calls("google") <= 1

\* The flag is set, the watchdog is on its way, and a later SIGQUIT would
\* find the original disposition.
C14_Witness ==
  /\ should_report_anr /\ wd_pc = "n_enabled"
  /\ disposition = "original" /\ original_sigquit_handler = "original"
  /\ \E t \in Threads : hpc[t] = "h_post"

\* Every frame of handle_sigquit that is past line 161, or has returned,
\* has left should_report_anr set.
FlagSetOnEveryFire ==
  /\ (\E t \in Threads : hpc[t] = "h_post") => should_report_anr
  /\ (hist.entries > 0 /\ \A t \in Threads : hpc[t] = "none") => should_report_anr

\* C15: the flag is set on every fire under either strategy, and once it is
\* set and the handler has returned, the watchdog leaves its wait, whether
\* or not sem_post succeeded.
C15_FlagWakesEitherStrategy ==
  /\ []FlagSetOnEveryFire
  /\ (should_report_anr /\ \A t \in Threads : hpc[t] = "none") ~> Woken

\* C16: once the watchdog has left its wait it reaches its exit, whatever
\* else happens; having exited it stays exited; and it calls
\* bsg_google_anr_call at most once.
C16_CycleRunsToExit ==
  /\ Woken ~> (wd_pc = "exited")
  /\ [][wd_pc = "exited" => wd_pc' = "exited"]_vars
  /\ [](Calls("google") <= 1 /\ hist.setups <= 1)

\* The cycle completed although an install came last and a second signal
\* had fired in between.
C16_Witness ==
  /\ wd_pc = "exited" /\ Calls("google") = 1
  /\ hist.entries = 2 /\ hist.lastLock = "install" /\ AllReturned

\* C17: the step in which the notifier reads enabled is taken by the holder
\* of the lock, every change of enabled or installed is made by a thread
\* that holds the lock, and no handle_sigquit frame runs on the lock's
\* holder.
C17_FlagsUnderLock ==
  [][ /\ (wd_pc = "n_enabled" /\ wd_pc' # "n_enabled") => mutex = "watchdog"
      /\ (enabled' # enabled \/ installed' # installed) => mutex # "free"
      /\ \A t \in Threads : hpc'[t] # "none" => mutex' # t ]_vars

\* C18: while handle_sigquit is the live disposition, the watchdog thread
\* exists and is parked in its initial wait.
C18_ArmedImpliesParked ==
  disposition = "handle_sigquit" => Parked

\* The handler is armed and the watchdog polls: sem_init had failed.
C18_Witness ==
  /\ disposition = "handle_sigquit" /\ wd_pc = "poll_sleep"
  /\ ~should_wait_for_semaphore /\ AllReturned /\ installed

\* C19: installed implies that the binding was resolved, the watchdog thread
\* was started and handle_sigquit was registered.
C19_InstalledMeansSetUp ==
  installed =>
    /\ bsg_jvm # "NULL" /\ obj_plugin # "NULL" /\ mthd_notify_anr_detected # "NULL"
    /\ wd_pc # "none"
    /\ original_sigquit_handler # "unset"

----------------------------------------------------------------------------
\* C11: as long as the pushes since the reset have stayed within PATH_SIZE
\* characters and MAX_SUBPATHS - 1 levels, bsg_pb_path is the segments on
\* the stack joined by '.', in push order, and subpath_level is their
\* number; and bsg_pb_unstack at level 0 changes nothing.
C11_PathIsJoinedSegments ==
  /\ [](pb_hist.within =>
          /\ PathString(g_path.path) = Join(pb_hist.segs)
          /\ g_path.subpath_level = Len(pb_hist.segs))
  /\ [][(g_path.subpath_level = 0 /\ pb_hist'.op \in {"unstack", "push_unstack"})
          => g_path' = g_path]_vars

\* Key "a" then index 0: the path reads "a.0".
C11_Witness ==
  /\ pb_hist.within
  /\ pb_hist.segs = << <<"a">>, <<"0">> >>
  /\ PathString(g_path.path) = <<"a", ".", "0">>
  /\ pb_hist.op = "push" /\ pb_hist.str = <<"a">>

\* A push found the path at PATH_SIZE characters or more, or the stack at
\* MAX_SUBPATHS - 1 levels.
PushAtLimit ==
  /\ pb_hist.op \in {"push", "refused"}
  /\ (Len(pb_hist.str) >= PATH_SIZE \/ pb_hist.lvl >= MAX_SUBPATHS - 1)

\* C12 as stated: a push at the limit changes nothing, the path stays
\* terminated, every byte from PATH_SIZE on keeps its initial zero,
\* subpath_level stays within 0..MAX_SUBPATHS-1, and no store lands outside
\* the path buffer or the subpaths array.
C12_NothingBeyondPathSize ==
  /\ PushAtLimit => pb_hist.op = "refused"
  /\ \E i \in 0..(BufSize - 1) : g_path.path[i] = NUL
  /\ \A i \in PATH_SIZE..(BufSize - 1) : g_path.path[i] = NUL
  /\ g_path.subpath_level \in 0..(MAX_SUBPATHS - 1)
  /\ DOMAIN g_path.path = 0..(BufSize - 1)
  /\ DOMAIN g_path.subpaths \subseteq 0..(MAX_SUBPATHS - 1)

\* C12 as it holds: a push at the limit changes nothing, the path stays
\* terminated inside the buffer, subpath_level stays within
\* 0..MAX_SUBPATHS-1, and no store lands at or beyond
\* PATH_SIZE + PATH_SIZE_PADDING or outside the subpaths array.
C12_NothingBeyondBuffer ==
  /\ PushAtLimit => pb_hist.op = "refused"
  /\ strlen(g_path.path, 0) < BufSize
  /\ g_path.subpath_level \in 0..(MAX_SUBPATHS - 1)
  /\ DOMAIN g_path.path = 0..(BufSize - 1)
  /\ DOMAIN g_path.subpaths \subseteq 0..(MAX_SUBPATHS - 1)

\* A key too long for the buffer was cut at its last byte, and the next
\* push, finding the path beyond PATH_SIZE, was refused.
C12_Witness ==
  /\ pb_hist.op = "refused" /\ Len(pb_hist.str) >= PATH_SIZE
  /\ g_path.path[BufSize - 2] = "k" /\ g_path.path[BufSize - 1] = NUL
  /\ Len(PathString(g_path.path)) = BufSize - 1

\* C20: after a push followed at once by bsg_pb_unstack, the path string
\* and subpath_level are what they were before the push.
C20_PushUnstackRestores ==
  pb_hist.op = "push_unstack" =>
    /\ PathString(g_path.path) = pb_hist.str
    /\ g_path.subpath_level = pb_hist.lvl

====
